---- MODULE Spec2Model ----
(***************************************************************************)
(* kube-copilot: the websocket backend (src/backend/main.py), its agent    *)
(* graph with the output guard (src/backend/agent.py) and the             *)
(* transcription service (src/backend/transcription_service.py).          *)
(*                                                                         *)
(* Texts are sequences of one-character strings, so that strip, "in",     *)
(* startswith and the sentence regex are computed as Python computes       *)
(* them.                                                                   *)
(*                                                                         *)
(* Two specifications share the module:                                    *)
(*   SpecAgent  rounds of AgentService.get_response on one agent, called   *)
(*              with one argument as src/backend/tests/test_agent.py does; *)
(*   Spec       one websocket connection of src/backend/main.py: the       *)
(*              receiver, the sender tasks it starts, the engine callbacks *)
(*              and the worker-thread calls.                               *)
(***************************************************************************)
EXTENDS Integers, Sequences, FiniteSets, TLC

VARIABLES
    \* ---- AgentService / TranscriptState (src/backend/agent.py) ----
    ai_history,         \* TranscriptState.ai_history: AI and tool messages
    latest_transcript,  \* TranscriptState.latest_transcript: <<>> is None
    graph_pc,           \* node the compiled graph runs next: end/call_model/call_tool
    agent_output,       \* return value of the last finished get_response (<<>>: none yet)
    raw_trace,          \* response.content of every LLM call, before the guard rewrote it
    rounds,             \* number of get_response calls made so far
    steps,              \* nodes the current graph.invoke has run (its super-steps)
    llm_input,          \* messages_for_llm of the last self._llm.invoke (<<>>: none yet)
    peer_history,       \* ai_history held by the graph of a second AgentService instance
    \* ---- one websocket connection (src/backend/main.py) ----
    recv_pc,            \* message_receiver: receive/gather/flush/closed/disconnected/raised
    client_state,       \* websocket.client_state.name
    ws_closed,          \* websocket.close() has been called
    sent,               \* events sent on the websocket, in order
    ntasks,             \* sender tasks created so far (= len(shutdown_events))
    task_pc,            \* per sender task: the await it is suspended at
    cancel_req,         \* per sender task: task.cancel() called, CancelledError not yet raised
    shutdown_event,     \* per sender task: its asyncio.Event
    finished_text_queue,\* per sender task: stabilized snapshots not yet dequeued
    get_task,           \* per sender task: result of the pending queue.get() (<<>>: not done)
    wait_done,          \* per sender task: the shutdown_event.wait() task is done
    stabilized_text,    \* per sender task: local stabilized_text
    sentence_count,     \* per sender task: local sentence_count
    recorder,           \* per sender task: none/running/stopped (TranscriptionService._recorder)
    start_thread,       \* per sender task: transcription_service.start is running in a worker thread
    result,             \* per sender task: how the task ended: none/tuple/cancelled
    threads,            \* get_response calls handed to asyncio.to_thread and not yet finished
    invoked,            \* every get_response call handed to asyncio.to_thread, in order
    nevents,            \* stabilized callbacks delivered by the engines so far
    \* the Streamlit pipeline (src/gui.py): st.session_state and its script runs
    ss_is_listening,            \* st.session_state.is_listening
    ss_language,                \* st.session_state.language
    ss_transcription_service,   \* 0 for None, else the number of the TranscriptionService
    ss_agent_service,           \* "none", else the language the AgentService was made for
    ss_finished_text_queue,     \* st.session_state.finished_text_queue
    ss_stabilized_text,         \* st.session_state.stabilized_text
    ss_last_agent_transcript,   \* st.session_state.last_agent_transcript
    ss_conversation,            \* st.session_state.conversation
    gui_recorder,               \* per TranscriptionService: none/created/running/stopped
    gui_radio,                  \* the value the language radio holds
    gui_rerun,                  \* st.rerun() was called: the script is run again
    gui_inputs,                 \* user interactions so far
    gui_events,                 \* stabilized callbacks of the Streamlit engines so far
    gui_calls,                  \* agent_service.get_response calls made by main(), in order
    \* ---- the product search tool (src/backend/tools/product_tool.py) ----
    tool_pc,                    \* unloaded/loaded: the module has been imported
    _product_db,                \* the records of structured_products_db.json, in file order
    tool_args,                  \* arguments of the last search (<<>>: none yet)
    tool_returned               \* what the last search returned

agent_vars == <<ai_history, latest_transcript, graph_pc, agent_output, raw_trace, rounds,
               steps, llm_input, peer_history>>

task_vars == <<task_pc, cancel_req, shutdown_event, finished_text_queue, get_task,
               wait_done, stabilized_text, sentence_count, recorder, start_thread, result>>

conn_vars == <<recv_pc, client_state, ws_closed, sent, ntasks, task_vars, threads, invoked,
              nevents>>

gui_vars == <<ss_is_listening, ss_language, ss_transcription_service, ss_agent_service,
             ss_finished_text_queue, ss_stabilized_text, ss_last_agent_transcript,
             ss_conversation, gui_recorder, gui_radio, gui_rerun, gui_inputs, gui_events,
             gui_calls>>
tool_vars == <<tool_pc, _product_db, tool_args, tool_returned>>
vars == <<agent_vars, conn_vars, gui_vars, tool_vars>>

\* ------------------------------------------------------------------ bounds
MaxRounds == 3      \* get_response calls in one run of SpecAgent
MaxPeerRounds == 2  \* get_response calls made on the second AgentService instance
MaxCalls  == 3      \* LLM calls in one run of SpecAgent (rounds plus tool iterations)
MaxInputs == 6      \* inputs of one connection: a `start` weighs 2 (it adds a sender
                    \* task), a stabilized callback of an engine weighs 1
MaxRecords == 20    \* records in structured_products_db.json
MaxGuiInputs == 4   \* user interactions (radio, button) in one Streamlit session
MaxGuiEvents == 3   \* stabilized callbacks in one Streamlit session

\* ------------------------------------------------------------------ program constants
SentenceStride    == 3   \* `current_sentences % 3`
GetResponseParams == 1   \* def get_response(self, transcript): parameters after self
DispatchCallArgs  == 2   \* to_thread(agent_service.get_response, text_to_send, "transcript-1")
FlushCallArgs     == 2   \* to_thread(agent_service.get_response, stabilized_text, "transcript-1")
TestCallArgs      == 1   \* to_thread(agent_service.get_response, transcript_chunk)
ResultLimit       == 10  \* return results[:10]
RecursionLimit    == 25  \* graph.invoke(input_data, config=config): config sets no
                         \* "recursion_limit", so the graph library's default applies

\* ------------------------------------------------------------------ texts
Whitespace == {" ", "\n", "\t"}

RECURSIVE LStrip(_)
LStrip(s) == IF s # <<>> /\ Head(s) \in Whitespace THEN LStrip(Tail(s)) ELSE s

RECURSIVE RStrip(_)
RStrip(s) ==
    IF s # <<>> /\ s[Len(s)] \in Whitespace THEN RStrip(SubSeq(s, 1, Len(s) - 1)) ELSE s

\* str.strip()
Strip(s) == RStrip(LStrip(s))

\* Python's `a in b` on strings: a occurs in b as a contiguous block
Contains(b, a) ==
    \E i \in 0..(Len(b) - Len(a)) : SubSeq(b, i + 1, i + Len(a)) = a

\* str.startswith
StartsWith(s, p) == Len(p) <= Len(s) /\ SubSeq(s, 1, Len(p)) = p

\* The literals of src/backend/agent.py
SILENT == <<"[", "S", "I", "L", "E", "N", "T", "]">>
I_CANNOT_PROVIDE ==
    <<"I", " ", "c", "a", "n", "n", "o", "t", " ", "p", "r", "o", "v", "i", "d", "e">>
SIEHE_OBEN == <<"(", "S", "i", "e", "h", "e", " ", "o", "b", "e", "n">>
DAS_BEDEUTET ==
    <<":", " ", "D", "a", "s", " ", "b", "e", "d", "e", "u", "t", "e", "t">>

\* ------------------------------------------------------------------ inputs
\* What the LLM may answer (response.content) when it requests no tool.
RawOutputs ==
    { <<>>,
      <<" ", " ">>,
      SILENT,
      <<" ">> \o SILENT \o <<"\n">>,
      <<"[", "s", "i", "l", "e", "n", "t", "]">>,
      <<"x", " ">> \o SILENT,
      <<"L", "E", "N", "T">>,
      <<"A", ",", " ", "B", ",", " ", "C">>,
      <<"A", ",", " ", "B">>,
      <<"A", ",", " ", "B", ",", " ", "C", ",", " ", "D">>,
      <<" ", "A", ",", " ", "B", " ">>,
      <<"B", ",", " ", "C", "\n">>,
      I_CANNOT_PROVIDE \o <<" ", "x">>,
      <<"x", " ">> \o I_CANNOT_PROVIDE,
      <<"x", " ">> \o SIEHE_OBEN \o <<")">>,
      <<"x">> \o DAS_BEDEUTET \o <<" ", "y">> }

\* response.content of an answer that carries tool_calls
ToolCallContents == { <<>>, <<"A", ",", " ", "B">> }

\* What search_structured_products hands back, as the ToolMessage content
ToolResults == { <<"[", "]">>, <<"[", "S", "P", "]">> }

\* What the LLM answers in the rounds of the second AgentService instance
PeerOutputs == { <<"A", ",", " ", "B", ",", " ", "C">>, <<"A", ",", " ", "B">> }

\* Transcripts handed to get_response
Transcripts == { <<"h", "i", ".">>, <<"h", "i", ".", " ", "y", "o", ".">> }

\* ------------------------------------------------------------------ messages
AIMessage(content, tool_calls) ==
    [type |-> "ai", content |-> content, tool_calls |-> tool_calls]

ToolMessage(content) ==
    [type |-> "tool", content |-> content, tool_calls |-> FALSE]

HumanMessage(content) ==
    [type |-> "human", content |-> content, tool_calls |-> FALSE]

\* self._system_prompt, a SystemMessage built once in __init__
SystemPrompt ==
    [type |-> "system", content |-> <<"p">>, tool_calls |-> FALSE]

\* ------------------------------------------------------------------ the guard
\* {msg.content.strip() for msg in history if isinstance(msg, AIMessage)}
previous_ai_responses(history) ==
    { Strip(history[i].content) : i \in { j \in 1..Len(history) : history[j].type = "ai" } }

\* a variant of the exact-repeat test that compares with the stored contents
\* as they are, without strip(); the repeat property does not hold with it
is_exact_duplicate_unstripped(new_content, history) ==
    new_content \in { history[i].content :
                        i \in { j \in 1..Len(history) : history[j].type = "ai" } }

is_exact_duplicate(new_content, history) ==
    new_content \in previous_ai_responses(history)

\* a variant of the substring test with the containment reversed; the
\* substring property does not hold with it
is_superset_duplicate(new_content, history) ==
    \E old_response \in previous_ai_responses(history) :
        Contains(new_content, old_response) /\ new_content # old_response

is_subset_duplicate(new_content, history) ==
    \E old_response \in previous_ai_responses(history) :
        Contains(old_response, new_content) /\ new_content # old_response

\* a variant of the condition that tests the sentinel by equality; the
\* reference the guard is compared with does not hold with it
force_silence_sentinel_equality(new_content, history) ==
    \/ new_content \in previous_ai_responses(history)
    \/ \E old_response \in previous_ai_responses(history) :
          Contains(old_response, new_content) /\ new_content # old_response
    \/ new_content = SILENT
    \/ StartsWith(new_content, I_CANNOT_PROVIDE)
    \/ Contains(new_content, SIEHE_OBEN)
    \/ Contains(new_content, DAS_BEDEUTET)

\* the condition of the `if` that forces silence
force_silence(new_content, history) ==
    \/ is_exact_duplicate(new_content, history)
    \/ is_subset_duplicate(new_content, history)
    \/ Contains(new_content, SILENT)
    \/ StartsWith(new_content, I_CANNOT_PROVIDE)
    \/ Contains(new_content, SIEHE_OBEN)
    \/ Contains(new_content, DAS_BEDEUTET)

\* response.content as call_model_node leaves it: new_content is only the
\* stripped copy the checks read; an accepted response keeps its content.
guarded_content(raw, history) ==
    IF force_silence(Strip(raw), history) THEN SILENT ELSE raw

\* should_continue: "continue" routes to call_tool, "__end__" ends the run
should_continue(history) ==
    IF history[Len(history)].tool_calls THEN "call_tool" ELSE "end"

\* ------------------------------------------------------------------ agent actions
InitAgent ==
    /\ ai_history = <<>>
    /\ latest_transcript = <<>>
    /\ graph_pc = "end"
    /\ agent_output = <<>>
    /\ raw_trace = <<>>
    /\ rounds = 0
    /\ steps = 0
    /\ llm_input = <<>>
    /\ peer_history = <<>>

\* The same list with the new transcript placed before the stored history
messages_for_llm_transcript_first(history, transcript) ==
    IF transcript # <<>>
    THEN <<SystemPrompt, HumanMessage(transcript[1])>> \o history
    ELSE <<SystemPrompt>> \o history

\* The list call_model_node hands to self._llm.invoke: the system prompt, the
\* stored history, then the new transcript if the state holds one; after a
\* tool result, the last HumanMessage found in the history, if there is one
messages_for_llm(history, transcript) ==
    LET base   == <<SystemPrompt>> \o history
        humans == { i \in 1..Len(history) : history[i].type = "human" }
    IN  IF transcript # <<>>
        THEN Append(base, HumanMessage(transcript[1]))
        ELSE IF history # <<>> /\ history[Len(history)].type = "tool" /\ humans # {}
             THEN Append(base, history[CHOOSE i \in humans : \A j \in humans : j <= i])
             ELSE base

\* A run in which the LLM has asked for a tool with empty content at every
\* call and the tool has found nothing every time: the one run the model
\* follows past MaxCalls, up to the graph's recursion limit
EmptyToolResult == <<"[", "]">>

Runaway ==
    /\ \A i \in 1..Len(raw_trace) : raw_trace[i] = <<>>
    /\ \A i \in 1..Len(ai_history) :
          IF ai_history[i].type = "tool"
          THEN ai_history[i].content = EmptyToolResult
          ELSE ai_history[i].tool_calls

\* get_response(transcript): graph.invoke writes the input into the thread's
\* state and enters call_model
get_response(transcript) ==
    /\ TestCallArgs = GetResponseParams
    /\ graph_pc \in {"end", "raised"}
    /\ rounds < MaxRounds
    /\ Len(raw_trace) < MaxCalls \/ Runaway
    /\ latest_transcript' = <<transcript>>
    /\ graph_pc' = "call_model"
    /\ rounds' = rounds + 1
    /\ steps' = 0
    /\ UNCHANGED <<ai_history, agent_output, raw_trace, llm_input, peer_history, conn_vars, gui_vars, tool_vars>>

\* call_model_node with the LLM answering (raw, tool_calls), then the
\* conditional edge; at END get_response returns the last message's content
call_model_node(raw, tool_calls) ==
    /\ graph_pc = "call_model"
    /\ steps < RecursionLimit
    /\ Len(raw_trace) < MaxCalls \/ Runaway
    /\ tool_calls => \/ Len(raw_trace) + 1 < MaxCalls
                     \/ Runaway /\ raw = <<>>
    /\ llm_input' = messages_for_llm(ai_history, latest_transcript)
    /\ LET response == AIMessage(guarded_content(raw, ai_history), tool_calls)
           history  == Append(ai_history, response)
       IN /\ ai_history' = history
          /\ graph_pc' = should_continue(history)
          /\ agent_output' = IF should_continue(history) = "end"
                             THEN <<history[Len(history)].content>>
                             ELSE agent_output
    /\ latest_transcript' = <<>>
    /\ raw_trace' = Append(raw_trace, raw)
    /\ steps' = steps + 1
    /\ UNCHANGED <<rounds, peer_history, conn_vars, gui_vars, tool_vars>>

\* The tool node on an ai_history channel without the operator.add reducer:
\* the node's return value overwrites the stored list
call_tool_overwriting(tool_result) ==
    /\ graph_pc = "call_tool"
    /\ steps < RecursionLimit
    /\ Len(raw_trace) < MaxCalls \/ tool_result = EmptyToolResult
    /\ ai_history' = <<ToolMessage(tool_result)>>
    /\ graph_pc' = "call_model"
    /\ steps' = steps + 1
    /\ UNCHANGED <<latest_transcript, agent_output, raw_trace, rounds, llm_input,
                   peer_history, conn_vars, gui_vars, tool_vars>>

\* ToolNode(messages_key="ai_history"): runs the requested tool and appends
\* its result as a ToolMessage, then the edge back to call_model
call_tool(tool_result) ==
    /\ graph_pc = "call_tool"
    /\ steps < RecursionLimit
    /\ Len(raw_trace) < MaxCalls \/ tool_result = EmptyToolResult
    /\ ai_history' = Append(ai_history, ToolMessage(tool_result))
    /\ graph_pc' = "call_model"
    /\ steps' = steps + 1
    /\ UNCHANGED <<latest_transcript, agent_output, raw_trace, rounds, llm_input,
                   peer_history, conn_vars, gui_vars, tool_vars>>

\* graph.invoke has run RecursionLimit nodes and the graph has not reached
\* END: it raises GraphRecursionError, which get_response does not catch
GraphRecursionError ==
    /\ graph_pc \in {"call_model", "call_tool"}
    /\ steps = RecursionLimit
    /\ graph_pc' = "raised"
    /\ UNCHANGED <<ai_history, latest_transcript, agent_output, raw_trace, rounds, steps,
                   llm_input, peer_history, conn_vars, gui_vars, tool_vars>>

\* A round on a second AgentService instance run against a graph state shared
\* with the first: one memory for both instances
peer_round_shared_memory(raw) ==
    /\ Len(peer_history) < MaxPeerRounds
    /\ graph_pc \in {"end", "raised"}
    /\ peer_history' = Append(peer_history, AIMessage(guarded_content(raw, ai_history), FALSE))
    /\ ai_history' = Append(ai_history, AIMessage(guarded_content(raw, ai_history), FALSE))
    /\ UNCHANGED <<latest_transcript, graph_pc, agent_output, raw_trace, rounds, steps,
                   llm_input, conn_vars, gui_vars, tool_vars>>

\* get_response on a second AgentService instance, the LLM answering raw with
\* no tool request: its graph was compiled with its own InMemorySaver, so the
\* round reads and extends that instance's ai_history
peer_round(raw) ==
    /\ Len(peer_history) < MaxPeerRounds
    /\ peer_history' = Append(peer_history, AIMessage(guarded_content(raw, peer_history), FALSE))
    /\ UNCHANGED <<ai_history, latest_transcript, graph_pc, agent_output, raw_trace, rounds,
                   steps, llm_input, conn_vars, gui_vars, tool_vars>>

\* ------------------------------------------------------------------ the Streamlit pipeline
\* src/gui.py. One action is one run of main() up to its st.rerun() or its
\* end. The realtime text_queue and accumulated_text only feed the display
\* and are left out.
Services == 1..(MaxGuiInputs + 1)

Languages == {"de", "en"}

\* stabilized snapshots of a Streamlit engine
GuiSnapshots ==
    { <<" ">>,
      <<"a", " ", "b">>,
      <<"a", " ", "b", " ", "c", " ", "d">>,
      <<"a", " ", "b", " ", "c", " ", "d", " ", "e">>,
      <<"a", " ", "b", " ", "c", " ", "d", " ", "e", " ", "f", " ", "g", " ">>,
      <<"x", " ", "y", " ", "z">> }

\* what AgentService.get_response of src/agent.py returns: "" for a silent
\* answer, else the content
GuiResponses == { <<>>, <<"t">> }

\* len(text.split()): the number of maximal runs of non-whitespace
WordCount(text) ==
    Cardinality({ i \in 1..Len(text) :
                    text[i] \notin Whitespace /\ (i = 1 \/ text[i - 1] \in Whitespace) })

\* `while not finished_text_queue.empty()`: the text after the drain
RECURSIVE DrainText(_, _)
DrainText(q, text) == IF q = <<>> THEN text ELSE DrainText(Tail(q), Head(q))

\* new_chunk_received after the drain
RECURSIVE DrainChanged(_, _)
DrainChanged(q, text) ==
    IF q = <<>> THEN FALSE ELSE (Head(q) # text) \/ DrainChanged(Tail(q), Head(q))

\* the slice without the strip()
new_transcript_chunk_untrimmed(text, last) == SubSeq(text, Len(last) + 1, Len(text))

\* stabilized_text[len(last_agent_transcript):].strip()
new_transcript_chunk(text, last) == Strip(SubSeq(text, Len(last) + 1, Len(text)))

InitGui ==
    /\ ss_is_listening = FALSE
    /\ ss_language = "de"
    /\ ss_transcription_service = 0
    /\ ss_agent_service = "none"
    /\ ss_finished_text_queue = <<>>
    /\ ss_stabilized_text = <<>>
    /\ ss_last_agent_transcript = <<>>
    /\ ss_conversation = <<>>
    /\ gui_recorder = [n \in Services |-> "none"]
    /\ gui_radio = "de"
    /\ gui_rerun = TRUE
    /\ gui_inputs = 0
    /\ gui_events = 0
    /\ gui_calls = <<>>

\* handle_button_click with a start branch that keeps the conversation list
handle_button_click_keeping_conversation ==
    /\ IF ss_is_listening
       THEN /\ ss_is_listening' = FALSE
            /\ gui_recorder' =
                  IF ss_transcription_service # 0
                  THEN [gui_recorder EXCEPT ![ss_transcription_service] = "stopped"]
                  ELSE gui_recorder
            /\ UNCHANGED <<ss_finished_text_queue, ss_stabilized_text,
                           ss_last_agent_transcript, ss_conversation>>
       ELSE IF ss_transcription_service # 0
       THEN /\ ss_stabilized_text' = <<>>
            /\ ss_last_agent_transcript' = <<>>
            /\ ss_conversation' = ss_conversation
            /\ ss_finished_text_queue' = <<>>
            /\ gui_recorder' = [gui_recorder EXCEPT ![ss_transcription_service] = "running"]
            /\ ss_is_listening' = TRUE
       ELSE UNCHANGED <<ss_is_listening, gui_recorder, ss_finished_text_queue,
                        ss_stabilized_text, ss_last_agent_transcript, ss_conversation>>
    /\ gui_rerun' = TRUE
    /\ UNCHANGED <<ss_language, ss_transcription_service, ss_agent_service, gui_calls>>

\* handle_button_click, always ending in st.rerun()
handle_button_click ==
    /\ IF ss_is_listening
       THEN /\ ss_is_listening' = FALSE
            /\ gui_recorder' =
                  IF ss_transcription_service # 0
                  THEN [gui_recorder EXCEPT ![ss_transcription_service] = "stopped"]
                  ELSE gui_recorder
            /\ UNCHANGED <<ss_finished_text_queue, ss_stabilized_text,
                           ss_last_agent_transcript, ss_conversation>>
       ELSE IF ss_transcription_service # 0
       THEN /\ ss_stabilized_text' = <<>>
            /\ ss_last_agent_transcript' = <<>>
            /\ ss_conversation' = <<>>
            /\ ss_finished_text_queue' = <<>>
            /\ gui_recorder' = [gui_recorder EXCEPT ![ss_transcription_service] = "running"]
            /\ ss_is_listening' = TRUE
       ELSE UNCHANGED <<ss_is_listening, gui_recorder, ss_finished_text_queue,
                        ss_stabilized_text, ss_last_agent_transcript, ss_conversation>>
    /\ gui_rerun' = TRUE
    /\ UNCHANGED <<ss_language, ss_transcription_service, ss_agent_service, gui_calls>>

\* `if language_code != st.session_state.language`: invalidate both services
language_changed(language_code) ==
    /\ ss_language' = language_code
    /\ ss_transcription_service' = 0
    /\ ss_agent_service' = "none"
    /\ gui_rerun' = TRUE
    /\ UNCHANGED <<ss_is_listening, ss_finished_text_queue, ss_stabilized_text,
                   ss_last_agent_transcript, ss_conversation, gui_recorder, gui_calls>>

\* `if st.session_state.transcription_service is None`: a new AgentService if
\* there is none, new queues, a new TranscriptionService with its recorder
load_services ==
    LET n == 1 + Cardinality({ m \in Services : gui_recorder[m] # "none" }) IN
    /\ ss_agent_service' = IF ss_agent_service = "none" THEN ss_language ELSE ss_agent_service
    /\ ss_finished_text_queue' = <<>>
    /\ ss_transcription_service' = n
    /\ gui_recorder' = [gui_recorder EXCEPT ![n] = "created"]
    /\ gui_rerun' = TRUE
    /\ UNCHANGED <<ss_is_listening, ss_language, ss_stabilized_text,
                   ss_last_agent_transcript, ss_conversation, gui_calls>>

\* the listening branch with the gate at two words or more
listening_pass_two_words(response) ==
    LET text  == DrainText(ss_finished_text_queue, ss_stabilized_text)
        chunk == new_transcript_chunk(text, ss_last_agent_transcript)
    IN /\ ss_finished_text_queue' = <<>>
       /\ ss_stabilized_text' = text
       /\ IF /\ DrainChanged(ss_finished_text_queue, ss_stabilized_text)
             /\ Strip(text) # <<>>
             /\ chunk # <<>>
             /\ WordCount(chunk) >= 2
          THEN /\ ss_conversation' =
                     IF response # <<>>
                     THEN ss_conversation \o <<<<"user", chunk>>, <<"agent", response>>>>
                     ELSE Append(ss_conversation, <<"user", chunk>>)
               /\ ss_last_agent_transcript' = text
               /\ gui_calls' = Append(gui_calls, [agent      |-> ss_agent_service,
                                                  input      |-> chunk,
                                                  history    |-> ss_conversation,
                                                  offset     |-> ss_last_agent_transcript,
                                                  transcript |-> text])
          ELSE UNCHANGED <<ss_conversation, ss_last_agent_transcript, gui_calls>>
       /\ gui_rerun' = TRUE
       /\ UNCHANGED <<ss_is_listening, ss_language, ss_transcription_service,
                      ss_agent_service, gui_recorder>>

\* the listening branch with a dispatch that leaves last_agent_transcript as
\* it was
listening_pass_offset_kept(response) ==
    LET text  == DrainText(ss_finished_text_queue, ss_stabilized_text)
        chunk == new_transcript_chunk(text, ss_last_agent_transcript)
    IN /\ ss_finished_text_queue' = <<>>
       /\ ss_stabilized_text' = text
       /\ IF /\ DrainChanged(ss_finished_text_queue, ss_stabilized_text)
             /\ Strip(text) # <<>>
             /\ chunk # <<>>
             /\ WordCount(chunk) > 2
          THEN /\ ss_conversation' =
                     IF response # <<>>
                     THEN ss_conversation \o <<<<"user", chunk>>, <<"agent", response>>>>
                     ELSE Append(ss_conversation, <<"user", chunk>>)
               /\ ss_last_agent_transcript' = ss_last_agent_transcript
               /\ gui_calls' = Append(gui_calls, [agent      |-> ss_agent_service,
                                                  input      |-> chunk,
                                                  history    |-> ss_conversation,
                                                  offset     |-> ss_last_agent_transcript,
                                                  transcript |-> text])
          ELSE UNCHANGED <<ss_conversation, ss_last_agent_transcript, gui_calls>>
       /\ gui_rerun' = TRUE
       /\ UNCHANGED <<ss_is_listening, ss_language, ss_transcription_service,
                      ss_agent_service, gui_recorder>>

\* the listening branch: drain the queue, call the agent for a chunk of more
\* than two words, st.rerun()
listening_pass(response) ==
    LET text  == DrainText(ss_finished_text_queue, ss_stabilized_text)
        chunk == new_transcript_chunk(text, ss_last_agent_transcript)
    IN /\ ss_finished_text_queue' = <<>>
       /\ ss_stabilized_text' = text
       /\ IF /\ DrainChanged(ss_finished_text_queue, ss_stabilized_text)
             /\ Strip(text) # <<>>
             /\ chunk # <<>>
             /\ WordCount(chunk) > 2
          THEN /\ ss_conversation' =
                     IF response # <<>>
                     THEN ss_conversation \o <<<<"user", chunk>>, <<"agent", response>>>>
                     ELSE Append(ss_conversation, <<"user", chunk>>)
               /\ ss_last_agent_transcript' = text
               /\ gui_calls' = Append(gui_calls, [agent      |-> ss_agent_service,
                                                  input      |-> chunk,
                                                  history    |-> ss_conversation,
                                                  offset     |-> ss_last_agent_transcript,
                                                  transcript |-> text])
          ELSE UNCHANGED <<ss_conversation, ss_last_agent_transcript, gui_calls>>
       /\ gui_rerun' = TRUE
       /\ UNCHANGED <<ss_is_listening, ss_language, ss_transcription_service,
                      ss_agent_service, gui_recorder>>

\* one run of main() with the radio at language_code and the button clicked or not
main(language_code, clicked) ==
    /\ gui_radio' = language_code
    /\ IF clicked THEN handle_button_click
       ELSE IF language_code # ss_language THEN language_changed(language_code)
       ELSE IF ss_transcription_service = 0 THEN load_services
       ELSE IF ss_is_listening THEN \E response \in GuiResponses : listening_pass(response)
       ELSE /\ gui_rerun' = FALSE
            /\ UNCHANGED <<ss_is_listening, ss_language, ss_transcription_service,
                           ss_agent_service, ss_finished_text_queue, ss_stabilized_text,
                           ss_last_agent_transcript, ss_conversation, gui_recorder,
                           gui_calls>>

\* the user moves the radio or clicks the button: Streamlit runs the script
\* with the new widget values
UserInteracts(language_code, clicked) ==
    /\ gui_inputs < MaxGuiInputs
    /\ language_code # gui_radio \/ clicked
    /\ gui_inputs' = gui_inputs + 1
    /\ main(language_code, clicked)
    /\ UNCHANGED <<gui_events, agent_vars, conn_vars, tool_vars>>

\* the run that st.rerun() asked for (the first run of the session included)
Rerun ==
    /\ gui_rerun
    /\ main(gui_radio, FALSE)
    /\ UNCHANGED <<gui_inputs, gui_events, agent_vars, conn_vars, tool_vars>>

\* on_transcription_finished of the current service's recorder
GuiEngineStabilized(text) ==
    /\ ss_transcription_service # 0
    /\ gui_recorder[ss_transcription_service] = "running"
    /\ gui_events < MaxGuiEvents
    /\ gui_events' = gui_events + 1
    /\ ss_finished_text_queue' = Append(ss_finished_text_queue, text)
    /\ UNCHANGED <<ss_is_listening, ss_language, ss_transcription_service, ss_agent_service,
                   ss_stabilized_text, ss_last_agent_transcript, ss_conversation,
                   gui_recorder, gui_radio, gui_rerun, gui_inputs, gui_calls, agent_vars,
                   conn_vars, tool_vars>>

NextGui ==
    \/ \E language_code \in Languages : \E clicked \in BOOLEAN :
          UserInteracts(language_code, clicked)
    \/ Rerun
    \/ \E text \in GuiSnapshots : GuiEngineStabilized(text)

\* ------------------------------------------------------------------ the product search tool
\* src/backend/tools/product_tool.py. An optional argument is <<>> for None
\* and <<v>> for the value v (<< <<>> >>: the empty string); so is the coupon of a record, which the
\* database may leave null. Coupons are in whole percent.
LowerChar(c) ==
    CASE c = "C" -> "c" [] c = "E" -> "e" [] c = "F" -> "f" [] c = "H" -> "h"
      [] c = "K" -> "k" [] c = "R" -> "r" [] c = "U" -> "u" [] c = "W" -> "w"
      [] OTHER -> c

\* str.lower()
Lower(str) == [i \in 1..Len(str) |-> LowerChar(str[i])]

Product(risk_profile, currency, coupon_pa) ==
    [risk_profile |-> risk_profile, currency |-> currency, coupon_pa |-> coupon_pa]

\* the kinds of record a database is made of
BaseProducts ==
    << Product(<<"K", "o">>, <<"C", "H", "F">>, <<6>>),
       Product(<<"K", "o">>, <<"C", "H", "F">>, <<0>>),
       Product(<<"W", "a">>, <<"E", "U", "R">>, <<3>>),
       Product(<<"K", "o">>, <<"E", "U", "R">>, <<>>),
       Product(<<"W", "a">>, <<"C", "H", "F">>, <<5>>) >>

\* the database of n records that runs through BaseProducts from offset k;
\* a record carries its position in the file as its name
Database(n, k) ==
    [i \in 1..n |-> [name |-> i] @@ BaseProducts[((i + k) % Len(BaseProducts)) + 1]]

RiskProfiles == { <<>>, << <<>> >>, <<<<"k", "o">>>>, <<<<"W", "a">>>>, <<<<"A", "u">>>> }
Currencies   == { <<>>, <<<<"c", "h", "f">>>>, <<<<"E", "U", "R">>>> }
MinCoupons   == { <<>>, <<0>>, <<3>>, <<6>>, <<7>> }

\* `if risk_profile:` / `if currency:`: None and "" are falsy
Truthy(arg) == arg # <<>> /\ arg[1] # <<>>

\* `p["coupon_pa"] and p["coupon_pa"] >= min_coupon_pa`: None and 0 are falsy
coupon_filter(p, min_coupon_pa) ==
    /\ p.coupon_pa # <<>>
    /\ p.coupon_pa[1] # 0
    /\ p.coupon_pa[1] >= min_coupon_pa

\* results[:n]
Slice(results, n) == SubSeq(results, 1, IF Len(results) < n THEN Len(results) ELSE n)

search_structured_products(db, risk_profile, currency, min_coupon_pa) ==
    LET r1 == IF Truthy(risk_profile)
              THEN SelectSeq(db, LAMBDA p : Lower(p.risk_profile) = Lower(risk_profile[1]))
              ELSE db
        r2 == IF Truthy(currency)
              THEN SelectSeq(r1, LAMBDA p : Lower(p.currency) = Lower(currency[1]))
              ELSE r1
        r3 == IF min_coupon_pa # <<>>
              THEN SelectSeq(r2, LAMBDA p : coupon_filter(p, min_coupon_pa[1]))
              ELSE r2
    IN  Slice(r3, ResultLimit)

InitTool ==
    /\ tool_pc = "unloaded"
    /\ _product_db = <<>>
    /\ tool_args = <<>>
    /\ tool_returned = <<>>

\* import of the module: json.load of the database file
LoadDatabase(n, k) ==
    /\ tool_pc = "unloaded"
    /\ tool_pc' = "loaded"
    /\ _product_db' = Database(n, k)
    /\ UNCHANGED <<tool_args, tool_returned, agent_vars, conn_vars, gui_vars>>

\* one call of the tool; the function keeps no state between calls, so a
\* behaviour makes one
Search(risk_profile, currency, min_coupon_pa) ==
    /\ tool_pc = "loaded"
    /\ tool_args = <<>>
    /\ tool_args' = <<[risk_profile |-> risk_profile, currency |-> currency,
                       min_coupon_pa |-> min_coupon_pa]>>
    /\ tool_returned' = search_structured_products(_product_db, risk_profile, currency,
                                                 min_coupon_pa)
    /\ UNCHANGED <<tool_pc, _product_db, agent_vars, conn_vars, gui_vars>>

NextTool ==
    \/ \E n \in 0..MaxRecords : \E k \in 1..Len(BaseProducts) : LoadDatabase(n, k)
    \/ \E risk_profile \in RiskProfiles : \E currency \in Currencies :
          \E min_coupon_pa \in MinCoupons : Search(risk_profile, currency, min_coupon_pa)

\* ------------------------------------------------------------------ the connection
Tasks == 1..(MaxInputs \div 2)
Started == 1..ntasks

\* the weight of the inputs taken so far
Inputs == 2 * ntasks + nevents

\* sentence-ending punctuation of the regex [.!?]+
Terminators == {".", "!", "?"}

\* len(re.findall(r"[.!?]+", text)): the number of maximal runs of terminators
SentenceCount(text) ==
    Cardinality({ i \in 1..Len(text) :
                    text[i] \in Terminators /\ (i = 1 \/ text[i - 1] \notin Terminators) })

\* the condition without the comparison with the recorded count
gate_ignoring_recorded_count(current_sentences, count) ==
    /\ current_sentences > 0
    /\ current_sentences % SentenceStride = 0

\* the condition that sends the transcript to the agent
gate(current_sentences, count) ==
    /\ current_sentences > 0
    /\ current_sentences % SentenceStride = 0
    /\ current_sentences # count

RECURSIVE Sentences(_)
Sentences(n) == IF n = 0 THEN <<>> ELSE Sentences(n - 1) \o <<"a", ".">>

\* What an engine may deliver as the stabilized transcript so far. The engine
\* may revise earlier text, so any snapshot may follow any other.
Snapshots ==
    { <<"h", "i">>,
      <<" ">>,
      Sentences(2),
      <<"a", "?", "!", " ", "b", ".", ".", ".", " ", "c", ".">>,
      Sentences(4),
      Sentences(6) }

Event(type, data, task) == [type |-> type, data |-> data, task |-> task]

\* a get_response call running in a worker thread
ThreadCall(kind, agent, text) == [kind |-> kind, agent |-> agent, text |-> text]

InitConn ==
    /\ recv_pc = "receive"
    /\ client_state = "CONNECTED"
    /\ ws_closed = FALSE
    /\ sent = <<>>
    /\ ntasks = 0
    /\ task_pc = [t \in Tasks |-> "none"]
    /\ cancel_req = [t \in Tasks |-> FALSE]
    /\ shutdown_event = [t \in Tasks |-> FALSE]
    /\ finished_text_queue = [t \in Tasks |-> <<>>]
    /\ get_task = [t \in Tasks |-> <<>>]
    /\ wait_done = [t \in Tasks |-> FALSE]
    /\ stabilized_text = [t \in Tasks |-> <<>>]
    /\ sentence_count = [t \in Tasks |-> 0]
    /\ recorder = [t \in Tasks |-> "none"]
    /\ start_thread = [t \in Tasks |-> FALSE]
    /\ result = [t \in Tasks |-> "none"]
    /\ threads = {}
    /\ invoked = <<>>
    /\ nevents = 0

Init == InitAgent /\ InitConn /\ InitGui /\ InitTool

\* task.cancel() on every task of the group; a finished task ignores it
CancelAll == [t \in Tasks |-> IF t \in Started /\ task_pc[t] # "done" THEN TRUE ELSE cancel_req[t]]

\* for event in shutdown_events: event.set()
SetAll == [t \in Tasks |-> IF t \in Started THEN TRUE ELSE shutdown_event[t]]

\* the `finally` of transcription_sender and its return: the final transcript
\* if the client is connected, transcription_service.shutdown(), the result
\* tuple. The frame's queue, get_task and wait_task are dropped with it.
Finish(t, log, text) ==
    /\ finished_text_queue' = [finished_text_queue EXCEPT ![t] = <<>>]
    /\ get_task' = [get_task EXCEPT ![t] = <<>>]
    /\ wait_done' = [wait_done EXCEPT ![t] = FALSE]
    /\ sent' = IF client_state = "CONNECTED"
               THEN Append(log, Event("transcript", text, t))
               ELSE log
    /\ recorder' = [recorder EXCEPT ![t] = IF @ = "running" THEN "stopped" ELSE @]
    /\ task_pc' = [task_pc EXCEPT ![t] = "done"]
    /\ result' = [result EXCEPT ![t] = "tuple"]

\* `while not shutdown_event.is_set()`: leave the loop, or create get_task and
\* wait_task and suspend in asyncio.wait
LoopHead(t, log, text) ==
    /\ IF shutdown_event[t]
       THEN Finish(t, log, text)
       ELSE /\ get_task' = [get_task EXCEPT ![t] = <<>>]
            /\ wait_done' = [wait_done EXCEPT ![t] = FALSE]
            /\ sent' = log
            /\ UNCHANGED finished_text_queue
            /\ task_pc' = [task_pc EXCEPT ![t] = "waiting"]
            /\ UNCHANGED <<recorder, result>>

\* ---- message_receiver ----
\* action == "start": cancel the group, status "starting", a new event and task
ReceiveStart ==
    /\ recv_pc = "receive"
    /\ Inputs + 2 <= MaxInputs
    /\ cancel_req' = CancelAll
    /\ sent' = Append(sent, Event("status", <<"starting">>, ntasks + 1))
    /\ ntasks' = ntasks + 1
    /\ task_pc' = [task_pc EXCEPT ![ntasks + 1] = "created"]
    /\ UNCHANGED <<recv_pc, client_state, ws_closed, shutdown_event, finished_text_queue,
                   get_task, wait_done, stabilized_text, sentence_count, recorder,
                   start_thread, result, threads, invoked, nevents, agent_vars, gui_vars, tool_vars>>

\* a variant of `stop` that also cancels the sender tasks; a call in flight
\* would then be abandoned by its task
ReceiveStopCancelling ==
    /\ recv_pc = "receive"
    /\ shutdown_event' = SetAll
    /\ cancel_req' = CancelAll
    /\ recv_pc' = "gather"
    /\ UNCHANGED <<client_state, ws_closed, sent, ntasks, task_pc,
                   finished_text_queue, get_task, wait_done, stabilized_text,
                   sentence_count, recorder, start_thread, result, threads, invoked, nevents,
                   agent_vars, gui_vars, tool_vars>>

\* action == "stop": set every shutdown event, then await gather(*group)
ReceiveStop ==
    /\ recv_pc = "receive"
    /\ shutdown_event' = SetAll
    /\ recv_pc' = "gather"
    /\ UNCHANGED <<client_state, ws_closed, sent, ntasks, task_pc, cancel_req,
                   finished_text_queue, get_task, wait_done, stabilized_text,
                   sentence_count, recorder, start_thread, result, threads, invoked, nevents,
                   agent_vars, gui_vars, tool_vars>>

\* gather returned with no task in the group: results is empty, close and break
GatherEmpty ==
    /\ recv_pc = "gather"
    /\ ntasks = 0
    /\ ws_closed' = TRUE
    /\ recv_pc' = "closed"
    /\ UNCHANGED <<client_state, sent, ntasks, task_vars, threads, invoked, nevents, agent_vars, gui_vars, tool_vars>>

\* gather returned: results[0] belongs to the task the set iterates first.
\* A CancelledError in results[0] is no Exception, so it is unpacked and the
\* unpacking raises; a tuple with text is sent to its agent in a worker thread;
\* a tuple with empty text goes straight to close.
GatherDone(first) ==
    /\ recv_pc = "gather"
    /\ first \in Started
    /\ \A t \in Started : task_pc[t] = "done"
    /\ IF result[first] = "cancelled"
       THEN /\ recv_pc' = "raised"
            /\ UNCHANGED <<ws_closed, threads, invoked>>
       ELSE IF stabilized_text[first] # <<>>
       THEN /\ recv_pc' = "flush"
            /\ threads' = threads \cup {ThreadCall("flush", first, stabilized_text[first])}
            /\ invoked' = Append(invoked, ThreadCall("flush", first, stabilized_text[first]))
            /\ UNCHANGED ws_closed
       ELSE /\ recv_pc' = "closed"
            /\ ws_closed' = TRUE
            /\ UNCHANGED <<threads, invoked>>
    /\ UNCHANGED <<client_state, sent, ntasks, task_vars, nevents, agent_vars, gui_vars, tool_vars>>

\* a message that is not JSON (json.loads raises) or is JSON but no object
\* (data.get raises): message_receiver catches only WebSocketDisconnect, so the
\* error leaves it and websocket_endpoint's finally cancels every task
ReceiveMalformed ==
    /\ recv_pc = "receive"
    /\ recv_pc' = "raised"
    /\ cancel_req' = CancelAll
    /\ UNCHANGED <<client_state, ws_closed, sent, ntasks, task_pc, shutdown_event,
                   finished_text_queue, get_task, wait_done, stabilized_text,
                   sentence_count, recorder, start_thread, result, threads, invoked,
                   nevents, agent_vars, gui_vars, tool_vars>>

\* receive_text raises WebSocketDisconnect: every event is set, the receiver
\* returns and websocket_endpoint's finally cancels every task
Disconnect ==
    /\ recv_pc = "receive"
    /\ client_state' = "DISCONNECTED"
    /\ shutdown_event' = SetAll
    /\ cancel_req' = CancelAll
    /\ recv_pc' = "disconnected"
    /\ UNCHANGED <<ws_closed, sent, ntasks, task_pc, finished_text_queue, get_task,
                   wait_done, stabilized_text, sentence_count, recorder, start_thread,
                   result, threads, invoked, nevents, agent_vars, gui_vars, tool_vars>>

\* ---- transcription_sender ----
\* first step of the task: AgentService, TranscriptionService, then
\* `await asyncio.to_thread(transcription_service.start)`
TaskStart(t) ==
    /\ t \in Started
    /\ task_pc[t] = "created"
    /\ ~cancel_req[t]
    /\ task_pc' = [task_pc EXCEPT ![t] = "starting"]
    /\ start_thread' = [start_thread EXCEPT ![t] = TRUE]
    /\ UNCHANGED <<recv_pc, client_state, ws_closed, sent, ntasks, cancel_req,
                   shutdown_event, finished_text_queue, get_task, wait_done,
                   stabilized_text, sentence_count, recorder, result, threads, invoked, nevents,
                   agent_vars, gui_vars, tool_vars>>

\* TranscriptionService.start in its worker thread: creates the recorder and
\* starts it, whether or not the task still waits for it
StartThreadDone(t) ==
    /\ start_thread[t]
    /\ start_thread' = [start_thread EXCEPT ![t] = FALSE]
    /\ recorder' = [recorder EXCEPT ![t] = "running"]
    /\ task_pc' = [task_pc EXCEPT ![t] = IF @ = "starting" THEN "started" ELSE @]
    /\ UNCHANGED <<recv_pc, client_state, ws_closed, sent, ntasks, cancel_req,
                   shutdown_event, finished_text_queue, get_task, wait_done,
                   stabilized_text, sentence_count, result, threads, invoked, nevents, agent_vars, gui_vars, tool_vars>>

\* TranscriptionService.start raises in its worker thread (the recorder cannot
\* be created or started): the awaiting task is resumed with the exception
StartThreadFails(t) ==
    /\ start_thread[t]
    /\ start_thread' = [start_thread EXCEPT ![t] = FALSE]
    /\ task_pc' = [task_pc EXCEPT ![t] = IF @ = "starting" THEN "start_failed" ELSE @]
    /\ UNCHANGED <<recv_pc, client_state, ws_closed, sent, ntasks, cancel_req,
                   shutdown_event, finished_text_queue, get_task, wait_done,
                   stabilized_text, sentence_count, recorder, result, threads, invoked,
                   nevents, agent_vars, gui_vars, tool_vars>>

\* the exception of start is caught by `except Exception` of
\* transcription_sender, which prints it; then finally and the return
TaskStartFailed(t) ==
    /\ task_pc[t] = "start_failed"
    /\ ~cancel_req[t]
    /\ UNCHANGED stabilized_text
    /\ Finish(t, sent, stabilized_text[t])
    /\ UNCHANGED <<recv_pc, client_state, ws_closed, ntasks, cancel_req, shutdown_event,
                   sentence_count, start_thread, threads, invoked, nevents, agent_vars,
                   gui_vars, tool_vars>>

\* the task resumes after start: status "listening", then the loop
TaskListening(t) ==
    /\ task_pc[t] = "started"
    /\ ~cancel_req[t]
    /\ LoopHead(t, Append(sent, Event("status", <<"listening">>, t)), stabilized_text[t])
    /\ UNCHANGED <<recv_pc, client_state, ws_closed, ntasks, cancel_req, shutdown_event,
                   stabilized_text, sentence_count, start_thread, threads, invoked,
                   nevents, agent_vars, gui_vars, tool_vars>>

\* the engine's on_transcription_finished callback: put_nowait on the queue.
\* Callbacks after the task returned fill a queue nobody reads; they are left out.
EngineStabilized(t, text) ==
    /\ recorder[t] = "running"
    /\ task_pc[t] # "done"
    /\ Inputs + 1 <= MaxInputs
    /\ finished_text_queue' = [finished_text_queue EXCEPT ![t] = Append(@, text)]
    /\ nevents' = nevents + 1
    /\ UNCHANGED <<recv_pc, client_state, ws_closed, sent, ntasks, task_pc, cancel_req,
                   shutdown_event, get_task, wait_done, stabilized_text, sentence_count,
                   recorder, start_thread, result, threads, invoked, agent_vars, gui_vars, tool_vars>>

\* a variant of the dequeue over a last-in first-out queue: get() hands out
\* the newest item
GetTaskDoneNewestFirst(t) ==
    /\ task_pc[t] = "waiting"
    /\ get_task[t] = <<>>
    /\ finished_text_queue[t] # <<>>
    /\ get_task' = [get_task EXCEPT ![t] =
                        <<finished_text_queue[t][Len(finished_text_queue[t])]>>]
    /\ finished_text_queue' = [finished_text_queue EXCEPT ![t] = SubSeq(@, 1, Len(@) - 1)]
    /\ UNCHANGED <<recv_pc, client_state, ws_closed, sent, ntasks, task_pc, cancel_req,
                   shutdown_event, wait_done, stabilized_text, sentence_count, recorder,
                   start_thread, result, threads, invoked, nevents, agent_vars, gui_vars, tool_vars>>

\* get_task = create_task(finished_text_queue.get()) completes with an item
GetTaskDone(t) ==
    /\ task_pc[t] = "waiting"
    /\ get_task[t] = <<>>
    /\ finished_text_queue[t] # <<>>
    /\ get_task' = [get_task EXCEPT ![t] = <<Head(finished_text_queue[t])>>]
    /\ finished_text_queue' = [finished_text_queue EXCEPT ![t] = Tail(@)]
    /\ UNCHANGED <<recv_pc, client_state, ws_closed, sent, ntasks, task_pc, cancel_req,
                   shutdown_event, wait_done, stabilized_text, sentence_count, recorder,
                   start_thread, result, threads, invoked, nevents, agent_vars, gui_vars, tool_vars>>

\* a variant of the wait with a plain blocking dequeue: the signal is seen
\* only once an item has been dequeued
WaitTaskDoneAfterItem(t) ==
    /\ task_pc[t] = "waiting"
    /\ shutdown_event[t]
    /\ ~wait_done[t]
    /\ get_task[t] # <<>>
    /\ wait_done' = [wait_done EXCEPT ![t] = TRUE]
    /\ UNCHANGED <<recv_pc, client_state, ws_closed, sent, ntasks, task_pc, cancel_req,
                   shutdown_event, finished_text_queue, get_task, stabilized_text,
                   sentence_count, recorder, start_thread, result, threads, invoked, nevents,
                   agent_vars, gui_vars, tool_vars>>

\* wait_task = create_task(shutdown_event.wait()) completes
WaitTaskDone(t) ==
    /\ task_pc[t] = "waiting"
    /\ shutdown_event[t]
    /\ ~wait_done[t]
    /\ wait_done' = [wait_done EXCEPT ![t] = TRUE]
    /\ UNCHANGED <<recv_pc, client_state, ws_closed, sent, ntasks, task_pc, cancel_req,
                   shutdown_event, finished_text_queue, get_task, stabilized_text,
                   sentence_count, recorder, start_thread, result, threads, invoked, nevents,
                   agent_vars, gui_vars, tool_vars>>

\* asyncio.wait returned with wait_task in done: get_task.cancel(), break,
\* finally. A result get_task already holds is not read.
TaskShutdown(t) ==
    /\ task_pc[t] = "waiting"
    /\ ~cancel_req[t]
    /\ wait_done[t]
    /\ UNCHANGED stabilized_text
    /\ Finish(t, sent, stabilized_text[t])
    /\ UNCHANGED <<recv_pc, client_state, ws_closed, ntasks, cancel_req, shutdown_event,
                   sentence_count, start_thread, threads, invoked, nevents, agent_vars, gui_vars, tool_vars>>

\* asyncio.wait returned with only get_task done: one pass of the loop body.
\* The transcript event, the sentence count, the gate; on a trigger
\* send_to_agent hands get_response to a worker thread and awaits it.
TaskEvent(t) ==
    /\ task_pc[t] = "waiting"
    /\ ~cancel_req[t]
    /\ ~wait_done[t]
    /\ get_task[t] # <<>>
    /\ LET text == get_task[t][1]
           log  == Append(sent, Event("transcript", text, t))
       IN /\ stabilized_text' = [stabilized_text EXCEPT ![t] = text]
          /\ IF gate(SentenceCount(text), sentence_count[t])
             THEN /\ threads' = threads \cup {ThreadCall("dispatch", t, text)}
                  /\ invoked' = Append(invoked, ThreadCall("dispatch", t, text))
                  /\ task_pc' = [task_pc EXCEPT ![t] = "dispatching"]
                  /\ sent' = log
                  /\ UNCHANGED <<finished_text_queue, get_task, wait_done, recorder, result>>
             ELSE /\ LoopHead(t, log, text)
                  /\ UNCHANGED <<threads, invoked>>
    /\ UNCHANGED <<recv_pc, client_state, ws_closed, ntasks, cancel_req, shutdown_event,
                   sentence_count, start_thread, nevents, agent_vars, gui_vars, tool_vars>>

\* The worker thread calls get_response with the positional arguments it was
\* given: one more than get_response takes, so the call raises TypeError before
\* the graph runs. A dispatch's awaiting task is resumed with the exception;
\* the flush's exception leaves message_receiver, which catches only
\* WebSocketDisconnect, and websocket_endpoint's finally cancels the tasks.
ThreadRaises(call) ==
    /\ call \in threads
    /\ threads' = threads \ {call}
    /\ IF call.kind = "dispatch"
       THEN /\ DispatchCallArgs # GetResponseParams
            /\ task_pc' = [task_pc EXCEPT ![call.agent] =
                              IF @ = "dispatching" THEN "dispatched" ELSE @]
            /\ UNCHANGED <<recv_pc, cancel_req>>
       ELSE /\ FlushCallArgs # GetResponseParams
            /\ recv_pc' = "raised"
            /\ cancel_req' = CancelAll
            /\ UNCHANGED task_pc
    /\ UNCHANGED <<client_state, ws_closed, sent, ntasks, shutdown_event,
                   finished_text_queue, get_task, wait_done, stabilized_text,
                   sentence_count, recorder, start_thread, result, invoked, nevents,
                   agent_vars, gui_vars, tool_vars>>

\* a variant without send_to_agent's `except Exception`: the error reaches
\* the outer handler of transcription_sender and the task ends
TaskAfterDispatchUncaught(t) ==
    /\ task_pc[t] = "dispatched"
    /\ ~cancel_req[t]
    /\ UNCHANGED <<stabilized_text, sentence_count>>
    /\ Finish(t, sent, stabilized_text[t])
    /\ UNCHANGED <<recv_pc, client_state, ws_closed, ntasks, cancel_req, shutdown_event,
                   start_thread, threads, invoked, nevents, agent_vars, gui_vars, tool_vars>>

\* send_to_agent's `except Exception` caught the error: no insight, then
\* sentence_count = current_sentences and the loop goes on
TaskAfterDispatch(t) ==
    /\ task_pc[t] = "dispatched"
    /\ ~cancel_req[t]
    /\ sentence_count' = [sentence_count EXCEPT ![t] = SentenceCount(stabilized_text[t])]
    /\ UNCHANGED stabilized_text
    /\ LoopHead(t, sent, stabilized_text[t])
    /\ UNCHANGED <<recv_pc, client_state, ws_closed, ntasks, cancel_req, shutdown_event,
                   start_thread, threads, invoked, nevents, agent_vars, gui_vars, tool_vars>>

\* CancelledError in a task that never ran: the coroutine body, its finally
\* included, is never entered
TaskCancelledUnstarted(t) ==
    /\ task_pc[t] = "created"
    /\ cancel_req[t]
    /\ task_pc' = [task_pc EXCEPT ![t] = "done"]
    /\ result' = [result EXCEPT ![t] = "cancelled"]
    /\ cancel_req' = [cancel_req EXCEPT ![t] = FALSE]
    /\ UNCHANGED <<recv_pc, client_state, ws_closed, sent, ntasks, shutdown_event,
                   finished_text_queue, get_task, wait_done, stabilized_text,
                   sentence_count, recorder, start_thread, threads, invoked, nevents, agent_vars, gui_vars, tool_vars>>

\* CancelledError raised at the await the task is suspended at: caught (by the
\* loop's `except CancelledError: break` or by the outer one), then finally.
\* A worker thread the task was waiting for keeps running.
TaskCancelled(t) ==
    /\ task_pc[t] \in {"starting", "start_failed", "started", "waiting", "dispatching",
                      "dispatched"}
    /\ cancel_req[t]
    /\ cancel_req' = [cancel_req EXCEPT ![t] = FALSE]
    /\ UNCHANGED stabilized_text
    /\ Finish(t, sent, stabilized_text[t])
    /\ UNCHANGED <<recv_pc, client_state, ws_closed, ntasks, shutdown_event, sentence_count,
                   start_thread, threads, invoked, nevents, agent_vars, gui_vars, tool_vars>>

Next ==
    \/ ReceiveStart
    \/ ReceiveStop
    \/ GatherEmpty
    \/ \E first \in Tasks : GatherDone(first)
    \/ ReceiveMalformed
    \/ Disconnect
    \/ \E t \in Tasks : TaskStart(t)
    \/ \E t \in Tasks : StartThreadDone(t)
    \/ \E t \in Tasks : StartThreadFails(t)
    \/ \E t \in Tasks : TaskStartFailed(t)
    \/ \E t \in Tasks : TaskListening(t)
    \/ \E t \in Tasks : \E text \in Snapshots : EngineStabilized(t, text)
    \/ \E t \in Tasks : GetTaskDone(t)
    \/ \E t \in Tasks : WaitTaskDone(t)
    \/ \E t \in Tasks : TaskShutdown(t)
    \/ \E t \in Tasks : TaskEvent(t)
    \/ \E call \in threads : ThreadRaises(call)
    \/ \E t \in Tasks : TaskAfterDispatch(t)
    \/ \E t \in Tasks : TaskCancelledUnstarted(t)
    \/ \E t \in Tasks : TaskCancelled(t)

Spec == Init /\ [][Next]_vars

\* What the event loop and the thread pool guarantee: a task that can take a
\* step is run, a worker thread finishes its call, a gather whose tasks are
\* done returns. The client and the engines owe nothing.
Fairness ==
    /\ \A t \in Tasks :
          /\ WF_vars(TaskStart(t))
          /\ WF_vars(StartThreadDone(t))
          /\ WF_vars(TaskStartFailed(t))
          /\ WF_vars(TaskListening(t))
          /\ WF_vars(GetTaskDone(t))
          /\ WF_vars(WaitTaskDone(t))
          /\ WF_vars(TaskShutdown(t))
          /\ WF_vars(TaskEvent(t))
          /\ WF_vars(TaskAfterDispatch(t))
          /\ WF_vars(TaskCancelledUnstarted(t))
          /\ WF_vars(TaskCancelled(t))
    /\ WF_vars(\E call \in threads : ThreadRaises(call))
    /\ WF_vars(GatherEmpty)
    /\ WF_vars(\E first \in Tasks : GatherDone(first))

SpecLive == Init /\ [][Next]_vars /\ Fairness

NextAgent ==
    \/ \E transcript \in Transcripts : get_response(transcript)
    \/ \E raw \in RawOutputs : call_model_node(raw, FALSE)
    \/ \E raw \in ToolCallContents : call_model_node(raw, TRUE)
    \/ \E tool_result \in ToolResults : call_tool(tool_result)
    \/ GraphRecursionError
    \/ \E raw \in PeerOutputs : peer_round(raw)

SpecAgent == Init /\ [][NextAgent]_vars

SpecGui == Init /\ [][NextGui]_vars

SpecTool == Init /\ [][NextTool]_vars

\* ------------------------------------------------------------------ agent claims
\* positions of the AI messages in memory, and the raw LLM output behind each
AIIndices == { i \in 1..Len(ai_history) : ai_history[i].type = "ai" }
FinalIndices == { i \in AIIndices : ~ai_history[i].tool_calls }
RawOf(i) == raw_trace[Cardinality({ j \in AIIndices : j <= i })]
PriorTurns(i) == { Strip(ai_history[k].content) : k \in { j \in AIIndices : j < i } }

\* C2: no turn stored in the session memory has the silence sentinel as its
\* content (a silenced round adds no entry to memory).
C2_NoSentinelInMemory ==
    \A i \in 1..Len(ai_history) : ai_history[i].content # SILENT

\* C4: exact-repeat suppression. A round whose raw output equals, after
\* trimming, a turn an earlier round accepted and stored returns the sentinel;
\* the same raw text fed in two rounds is silenced the second time.
C4_ExactRepeatSilenced ==
    /\ \A i \in AIIndices : \A j \in AIIndices :
          ( /\ i < j
            /\ ai_history[i].content # SILENT
            /\ Strip(RawOf(j)) = Strip(ai_history[i].content) )
          => ai_history[j].content = SILENT
    /\ \A i \in FinalIndices : \A j \in FinalIndices :
          (i < j /\ RawOf(i) = RawOf(j)) => ai_history[j].content = SILENT
    /\ (graph_pc = "end" /\ ai_history # <<>>)
          => agent_output = <<ai_history[Len(ai_history)].content>>

\* C4 witness: a text accepted by one round came back in a later round and was
\* silenced there.
C4_Witness ==
    \E i \in FinalIndices : \E j \in FinalIndices :
        /\ i < j
        /\ ai_history[i].content # SILENT
        /\ RawOf(j) = RawOf(i)
        /\ ai_history[j].content = SILENT
        /\ graph_pc = "end"
        /\ agent_output = <<SILENT>>

\* the rules of the guard other than the two substring directions, as the
\* code has them
C5_OtherRule(new, prior) ==
    \/ new \in prior
    \/ \E old \in prior : Contains(old, new) /\ new # old
    \/ Contains(new, SILENT)
    \/ StartsWith(new, I_CANNOT_PROVIDE)
    \/ Contains(new, SIEHE_OBEN)
    \/ Contains(new, DAS_BEDEUTET)

\* C5: substring suppression. A raw output that is a proper substring of a
\* prior agent turn is silenced; one that strictly contains a prior agent turn
\* and matches no other rule is returned as it is.
C5_SubstringSuppression ==
    \A j \in AIIndices :
        LET new == Strip(RawOf(j)) IN
        /\ (\E old \in PriorTurns(j) : Contains(old, new) /\ new # old)
              => ai_history[j].content = SILENT
        /\ (\E k \in { m \in AIIndices : m < j } :
                /\ Contains(ai_history[k].content, RawOf(j))
                /\ RawOf(j) # ai_history[k].content)
              => ai_history[j].content = SILENT
        /\ ( /\ \E old \in PriorTurns(j) : Contains(new, old) /\ new # old
             /\ ~C5_OtherRule(new, PriorTurns(j)) )
              => /\ ai_history[j].content = RawOf(j)
                 /\ ai_history[j].content # SILENT

\* C5 witness: memory holds "A, B, C"; "A, B" was silenced and "A, B, C, D"
\* was returned.
C5_Witness ==
    /\ Len(ai_history) = 3
    /\ AIIndices = {1, 2, 3}
    /\ ai_history[1].content = <<"A", ",", " ", "B", ",", " ", "C">>
    /\ RawOf(2) = <<"A", ",", " ", "B">>
    /\ ai_history[2].content = SILENT
    /\ ai_history[3].content = <<"A", ",", " ", "B", ",", " ", "C", ",", " ", "D">>
    /\ agent_output = <<ai_history[3].content>>

BadPattern(t) ==
    \/ StartsWith(t, I_CANNOT_PROVIDE)
    \/ Contains(t, SIEHE_OBEN)
    \/ Contains(t, DAS_BEDEUTET)

\* the five-rule reference as stated: sentinel equality, trimmed result
C6_Reference(raw, prior) ==
    LET t == Strip(raw) IN
    IF \/ t = SILENT
       \/ \E old \in prior : Contains(old, t)
       \/ BadPattern(t)
    THEN SILENT ELSE t

\* the reference with what the code does: sentinel containment, the raw
\* output returned as the model produced it
C6_AmendedReference(raw, prior) ==
    LET t == Strip(raw) IN
    IF \/ Contains(t, SILENT)
       \/ \E old \in prior : Contains(old, t)
       \/ BadPattern(t)
    THEN SILENT ELSE raw

\* C6 as stated: the guard's result equals the five-rule reference (silence
\* only for the sentinel literal, a repeat or substring of a prior turn, or a
\* bad pattern; otherwise the trimmed raw output).
C6_FiveRuleAsStated ==
    /\ \A j \in AIIndices :
          ai_history[j].content = C6_Reference(RawOf(j), PriorTurns(j))
    /\ (graph_pc = "end" /\ ai_history # <<>>)
          => agent_output = <<ai_history[Len(ai_history)].content>>

\* C6 amended: silence exactly when the trimmed output contains the sentinel
\* literal, equals or is a substring of a trimmed prior AI message, or matches
\* a bad pattern; otherwise get_response returns the raw output untrimmed.
C6_GuardMatchesAmendedReference ==
    /\ \A j \in AIIndices :
          ai_history[j].content = C6_AmendedReference(RawOf(j), PriorTurns(j))
    /\ (graph_pc = "end" /\ ai_history # <<>>)
          => agent_output = <<ai_history[Len(ai_history)].content>>

\* C6 witness: one round returned an accepted output with its whitespace, and
\* a later round was silenced for containing the sentinel without equalling it.
C6_Witness ==
    /\ graph_pc = "end"
    /\ \E i \in FinalIndices :
          /\ ai_history[i].content = RawOf(i)
          /\ Strip(RawOf(i)) # RawOf(i)
    /\ \E j \in FinalIndices :
          /\ Contains(Strip(RawOf(j)), SILENT)
          /\ Strip(RawOf(j)) # SILENT
          /\ ~(\E old \in PriorTurns(j) : Contains(old, Strip(RawOf(j))))
          /\ ai_history[j].content = SILENT


\* a step of call_model_node: the one action that adds to raw_trace
ModelCallStep == graph_pc = "call_model" /\ Len(raw_trace') = Len(raw_trace) + 1

\* C22: when the model/tool loop of a respond call reaches the iteration cap
\* with the graph still unfinished, the call ends by returning the silence
\* sentinel; it neither loops on nor raises.
C22_CapFailsClosedToSentinel ==
    [][(steps = RecursionLimit /\ graph_pc \in {"call_model", "call_tool"})
          => (graph_pc' = "end" /\ agent_output' = <<SILENT>>)]_vars

\* C23: the message list of every model call that follows a tool result
\* within a respond call (pending transcript already cleared) contains a
\* human turn.
C23_ReinvocationHasHumanTurn ==
    [][(/\ ModelCallStep
        /\ latest_transcript = <<>>
        /\ ai_history # <<>>
        /\ ai_history[Len(ai_history)].type = "tool")
          => \E i \in 1..Len(llm_input') : llm_input'[i].type = "human"]_vars

\* C24: the message list of the first model call of a respond round is the
\* system prompt, then the session memory in order, then the latest
\* transcript as a human turn in last position; the transcript is in the
\* list exactly once.
C24_FirstCallMessageList ==
    [][(ModelCallStep /\ latest_transcript # <<>>)
          => /\ llm_input' = <<SystemPrompt>> \o ai_history
                                 \o <<HumanMessage(latest_transcript[1])>>
             /\ Cardinality({ i \in 1..Len(llm_input') :
                                llm_input'[i] = HumanMessage(latest_transcript[1]) }) = 1]_vars

\* the first call of a later round has been made over a memory that holds a
\* tool iteration and an answer
C24_Witness ==
    /\ rounds >= 2
    /\ steps = 1
    /\ Len(llm_input) >= 5
    /\ llm_input[Len(llm_input)].type = "human"
    /\ \E i \in 1..Len(llm_input) : llm_input[i].type = "tool"

\* C25: the session memory before any step is a prefix of the memory after
\* it: no stored turn is removed, reordered or replaced.
C25_MemoryAppendOnly ==
    [][/\ Len(ai_history') >= Len(ai_history)
       /\ SubSeq(ai_history', 1, Len(ai_history)) = ai_history]_vars

\* two finished rounds, the first with a tool iteration, all of it stored
C25_Witness ==
    /\ rounds >= 2
    /\ graph_pc = "end"
    /\ Len(ai_history) >= 4
    /\ ai_history[2].type = "tool"
    /\ ~ai_history[Len(ai_history)].tool_calls

\* C26: a round of one AgentService instance leaves the memory of the other
\* unchanged, and what the guard of an instance stores is decided by that
\* instance's own prior turns alone, whatever the other instance holds.
C26_SessionsIndependent ==
    [][/\ peer_history' # peer_history
            => UNCHANGED <<ai_history, latest_transcript, graph_pc, agent_output, llm_input>>
       /\ ai_history' # ai_history => peer_history' = peer_history
       /\ ModelCallStep
            => ai_history'[Len(ai_history')].content =
                  C6_AmendedReference(raw_trace'[Len(raw_trace')],
                                      { Strip(ai_history[k].content) : k \in AIIndices })]_vars

\* the second instance holds "A, B, C" and silenced "A, B" as its substring;
\* the first instance, with nothing of its own stored before, returned "A, B"
C26_Witness ==
    /\ Len(peer_history) = 2
    /\ peer_history[1].content = <<"A", ",", " ", "B", ",", " ", "C">>
    /\ peer_history[2].content = SILENT
    /\ Len(ai_history) = 1
    /\ raw_trace = << <<"A", ",", " ", "B">> >>
    /\ agent_output = << <<"A", ",", " ", "B">> >>

\* ------------------------------------------------------------- connection claims

\* the positions of the calls of one kind made on one AgentService
CallsOf(kind, a) == { i \in 1..Len(invoked) : invoked[i].kind = kind /\ invoked[i].agent = a }

\* C1: at any instant at most one get_response call is in flight on the
\* AgentService of a session; the call made on stop never overlaps a call
\* made from the listening loop.
C1_OneInvocationInFlight ==
    \A a \in Tasks : Cardinality({ call \in threads : call.agent = a }) <= 1

\* a step in which task t takes one stabilized update through the loop body
UpdateStep(t) ==
    /\ task_pc[t] = "waiting"
    /\ get_task[t] # <<>>
    /\ ~wait_done[t]
    /\ ~cancel_req[t]
    /\ (task_pc'[t] = "dispatching" \/ get_task'[t] = <<>>)
    /\ stabilized_text'[t] = get_task[t][1]

\* the step hands exactly one get_response call for task t to a worker thread
DispatchStep(t) ==
    /\ task_pc'[t] = "dispatching"
    /\ Len(invoked') = Len(invoked) + 1
    /\ invoked'[Len(invoked')] = ThreadCall("dispatch", t, get_task[t][1])

\* a multiple of the stride lies above the count of the last dispatch and at
\* or below the new count
Crosses(count, current_sentences) ==
    current_sentences \div SentenceStride > count \div SentenceStride

\* C7: whenever an update takes the cumulative sentence count of the
\* stabilized text across a multiple of three since the last dispatch, that
\* update triggers exactly one dispatch.
C7_CrossingDispatchesOnce ==
    [][\A t \in Tasks :
          (UpdateStep(t) /\ Crosses(sentence_count[t], SentenceCount(get_task[t][1])))
              => DispatchStep(t)]_vars

\* C8: an update whose sentence count exceeds the count recorded at the last
\* dispatch by fewer than three, an unchanged or a lower count included,
\* triggers no dispatch.
C8_NoEarlyDispatch ==
    [][\A t \in Tasks :
          (UpdateStep(t) /\ SentenceCount(get_task[t][1]) - sentence_count[t] < SentenceStride)
              => Len(invoked') = Len(invoked)]_vars

\* the text of call i was handed to the same AgentService by an earlier dispatch
AlreadyDispatched(i) ==
    \E j \in CallsOf("dispatch", invoked[i].agent) : j < i /\ invoked[j].text = invoked[i].text

\* the receiver has left the `stop` branch one way or the other
StopHandled == recv_pc \in {"closed", "raised"}

\* C9: a stop that finds buffered text not yet dispatched makes exactly one
\* forced invocation, and when the stop has been handled the connection has
\* been closed.
C9_StopFlushesOnceThenCloses ==
    \A i \in 1..Len(invoked) :
        (/\ invoked[i].kind = "flush"
         /\ Strip(invoked[i].text) # <<>>
         /\ ~AlreadyDispatched(i)
         /\ StopHandled)
            => /\ Cardinality({ j \in 1..Len(invoked) : invoked[j].kind = "flush" }) = 1
               /\ recv_pc = "closed"
               /\ ws_closed

\* the text handed to AgentService a by the latest dispatch before call i
LastDispatched(i) ==
    LET before == { j \in CallsOf("dispatch", invoked[i].agent) : j < i }
    IN  IF before = {} THEN <<>>
        ELSE invoked[CHOOSE j \in before : \A k \in before : k <= j].text

\* what follows the dispatched prefix, trimmed
Remainder(text, dispatched) == Strip(SubSeq(text, Len(dispatched) + 1, Len(text)))

\* C10: the forced invocation on stop is made only for a remainder that is
\* neither empty nor whitespace and was not dispatched before, and it carries
\* that remainder.
C10_FlushOnlyUndispatchedRemainder ==
    \A i \in 1..Len(invoked) :
        invoked[i].kind = "flush"
            => /\ Strip(invoked[i].text) # <<>>
               /\ ~AlreadyDispatched(i)
               /\ Strip(invoked[i].text) = Remainder(invoked[i].text, LastDispatched(i))

\* the dispatch call task t is waiting for
DispatchCall(t) == ThreadCall("dispatch", t, stabilized_text[t])

\* the receiver takes a `stop` in this step
StopStep == recv_pc = "receive" /\ recv_pc' = "gather"

\* C11: a stop received while an agent invocation is in flight does not
\* interrupt it. The stop cancels no task and no call; a task that is not
\* cancelled leaves its await only when the call has finished; and a task
\* resumed after its call with the stop signalled records the dispatch and
\* leaves the loop at once, taking no further event.
C11_StopDoesNotInterruptDispatch ==
    [][/\ StopStep => (cancel_req' = cancel_req /\ threads' = threads /\ task_pc' = task_pc)
       /\ \A t \in Tasks :
            /\ (task_pc[t] = "dispatching" /\ task_pc'[t] # "dispatching" /\ ~cancel_req[t])
                  => /\ DispatchCall(t) \in threads
                     /\ DispatchCall(t) \notin threads'
                     /\ task_pc'[t] = "dispatched"
            /\ (/\ task_pc[t] = "dispatched"
                /\ task_pc'[t] # "dispatched"
                /\ ~cancel_req[t]
                /\ shutdown_event[t])
                  => /\ task_pc'[t] = "done"
                     /\ result'[t] = "tuple"
                     /\ sentence_count'[t] = SentenceCount(stabilized_text[t])
                     /\ stabilized_text'[t] = stabilized_text[t]
                     /\ threads' = threads]_vars

\* C11 witness: the stop has been taken and signalled to task t while its
\* call is still running in the worker thread, and the task still awaits it.
C11_Witness ==
    \E t \in Started :
        /\ recv_pc = "gather"
        /\ shutdown_event[t]
        /\ ~cancel_req[t]
        /\ task_pc[t] = "dispatching"
        /\ DispatchCall(t) \in threads

\* the latest snapshot the engine of task t has delivered: the last one still
\* queued, else the one get_task holds, else the one the loop took last
LatestDelivered(t) ==
    IF finished_text_queue[t] # <<>> THEN finished_text_queue[t][Len(finished_text_queue[t])]
    ELSE IF get_task[t] # <<>> THEN get_task[t][1]
    ELSE stabilized_text[t]

\* task t leaves the loop on the stop signal and returns its tuple
StopHonoredStep(t) ==
    /\ task_pc[t] \in {"started", "waiting", "dispatched"}
    /\ ~cancel_req[t]
    /\ shutdown_event[t]
    /\ task_pc'[t] = "done"
    /\ result'[t] = "tuple"

\* C12: the text a sender task hands over for the forced flush when it honors
\* the stop is the latest stabilized snapshot its engine delivered, snapshots
\* still queued (enqueued during an agent call and not yet dequeued) included.
C12_FlushUsesLatestDelivered ==
    [][\A t \in Tasks : StopHonoredStep(t) => stabilized_text'[t] = LatestDelivered(t)]_vars

\* C13: shutdown never hangs on an empty queue. A sender task whose loop
\* waits for the next stabilized event when the stop or shutdown signal is
\* raised leaves the loop and terminates, also when no event ever arrives.
C13_ShutdownNeverHangs ==
    \A t \in Tasks : (task_pc[t] = "waiting" /\ shutdown_event[t]) ~> (task_pc[t] = "done")

\* C13 witness: nothing was ever delivered, the loop of task t waits on an
\* empty queue, the stop has been signalled and the wait has woken up on it.
C13_Witness ==
    \E t \in Started :
        /\ recv_pc = "gather"
        /\ task_pc[t] = "waiting"
        /\ shutdown_event[t]
        /\ wait_done[t]
        /\ nevents = 0
        /\ finished_text_queue[t] = <<>>
        /\ get_task[t] = <<>>

\* the session on the connection has ended: the receiver has returned after a
\* stop or a disconnect and every sender task has finished
SessionEnded ==
    /\ recv_pc \in {"closed", "disconnected"}
    /\ \A t \in Started : task_pc[t] = "done"

\* text of the session started last that no dispatch handed to its agent
RemainingText(t) ==
    /\ t = ntasks
    /\ Strip(stabilized_text[t]) # <<>>
    /\ \A i \in CallsOf("dispatch", t) : invoked[i].text # stabilized_text[t]

\* C14: once a stop or a disconnect is signalled, the session makes the final
\* forced flush of the remaining text before it ends, after a disconnect as
\* well as after a stop.
C14_SignalledSessionFlushes ==
    SessionEnded =>
        \A t \in Started :
            RemainingText(t) =>
                \E i \in CallsOf("flush", t) : invoked[i].text = stabilized_text[t]

\* C15: however a session ends, its transcription engine is stopped and
\* released: once the sender task has finished and its start() call has
\* returned, the recorder created for it is not running.
C15_EngineReleasedAtEnd ==
    \A t \in Started :
        (task_pc[t] = "done" /\ ~start_thread[t]) => recorder[t] # "running"

\* C16: two transcription engines never coexist on one connection: the
\* engine of a replaced session is stopped before the engine of the new
\* session runs.
C16_OneEngineAtATime ==
    Cardinality({ t \in Started : recorder[t] = "running" }) <= 1

\* the receiver fails on a message it cannot parse
MalformedStep == recv_pc = "receive" /\ recv_pc' = "raised"

\* C18: a control message that cannot be parsed is ignored: the receiver
\* keeps reading, and no sender task is cancelled or stopped.
C18_MalformedMessageIgnored ==
    [][MalformedStep =>
          /\ recv_pc' = "receive"
          /\ cancel_req' = cancel_req
          /\ shutdown_event' = shutdown_event]_vars

\* C19: when an agent invocation dispatched by the loop raises, the round
\* sends nothing to the client and the session keeps listening: the task goes
\* back to waiting for the next stabilized event, and an event taken after a
\* dispatch is forwarded as a transcript event and put to the gate as before.
C19_RaisingDispatchKeepsListening ==
    [][\A t \in Tasks :
          /\ (task_pc[t] = "dispatching" /\ task_pc'[t] = "dispatched") => sent' = sent
          /\ (/\ task_pc[t] = "dispatched"
              /\ task_pc'[t] # "dispatched"
              /\ ~cancel_req[t]
              /\ ~shutdown_event[t])
                => /\ task_pc'[t] = "waiting"
                   /\ sent' = sent
                   /\ finished_text_queue'[t] = finished_text_queue[t]
                   /\ recorder'[t] = recorder[t]
          /\ (UpdateStep(t) /\ CallsOf("dispatch", t) # {})
                => /\ Len(sent') > Len(sent)
                   /\ sent'[Len(sent) + 1] = Event("transcript", get_task[t][1], t)
                   /\ gate(SentenceCount(get_task[t][1]), sentence_count[t]) <=> DispatchStep(t)
      ]_vars

\* C19 witness: a dispatch of task t raised and was recorded, and the task
\* has since taken a later event, forwarded it and is waiting for the next.
C19_Witness ==
    \E t \in Started :
        /\ task_pc[t] = "waiting"
        /\ sentence_count[t] > 0
        /\ CallsOf("dispatch", t) # {}
        /\ threads = {}
        /\ SentenceCount(stabilized_text[t]) # sentence_count[t]
        /\ sent # <<>>
        /\ sent[Len(sent)] = Event("transcript", stabilized_text[t], t)

\* a forced flush round was made and its call is over
FlushRoundOver ==
    /\ \E i \in 1..Len(invoked) : invoked[i].kind = "flush"
    /\ \A call \in threads : call.kind # "flush"

\* C20: an error raised inside an agent round, the forced flush round on
\* stop included, does not tear down the session: once the flush round is
\* over the receiver has not been left by an exception and the connection
\* has been closed as the last step of the stop sequence.
C20_RoundErrorContained ==
    FlushRoundOver => (recv_pc # "raised" /\ recv_pc = "closed" /\ ws_closed)

\* the events a step adds to what was sent to the client
NewlySent == { sent'[i] : i \in (Len(sent) + 1)..Len(sent') }

\* C21: when the transcription engine fails to start, the failure is fatal
\* and visible: the sender task reports it to the client in a status event
\* and the session is closed; no `listening` status is sent.
C21_StartFailureReported ==
    [][\A t \in Tasks :
          (task_pc[t] = "start_failed" /\ task_pc'[t] = "done" /\ client_state = "CONNECTED")
              => /\ \E e \in NewlySent : e.type = "status" /\ e.data # <<"listening">>
                 /\ \A e \in NewlySent : e # Event("status", <<"listening">>, t)
                 /\ ws_closed']_vars

\* C27: the stabilized events of a session are handled one at a time in
\* arrival order. The engine enqueues at the tail; an event is dequeued only
\* from the head, only while the task waits at the loop head with no event
\* in hand and no agent call of its loop in flight; the handling of the
\* event in hand sends the transcript event of exactly that snapshot; and
\* the event in hand is not replaced by another before it is handled.
C27_EventsInArrivalOrder ==
    [][\A t \in Tasks :
          /\ Len(finished_text_queue'[t]) > Len(finished_text_queue[t])
                => /\ Len(finished_text_queue'[t]) = Len(finished_text_queue[t]) + 1
                   /\ SubSeq(finished_text_queue'[t], 1, Len(finished_text_queue[t]))
                         = finished_text_queue[t]
          /\ (get_task[t] = <<>> /\ get_task'[t] # <<>>)
                => /\ get_task'[t] = <<Head(finished_text_queue[t])>>
                   /\ finished_text_queue'[t] = Tail(finished_text_queue[t])
                   /\ task_pc[t] = "waiting"
                   /\ \A call \in threads : ~(call.kind = "dispatch" /\ call.agent = t)
          /\ UpdateStep(t)
                => /\ Len(sent') > Len(sent)
                   /\ sent'[Len(sent) + 1] = Event("transcript", get_task[t][1], t)
          /\ get_task[t] # <<>> => get_task'[t] \in {get_task[t], <<>>}]_vars

\* two different snapshots of one session were sent as transcript events, a
\* dispatch was made in between for the first, and a third event is in hand
C27_Witness ==
    \E t \in Tasks :
        /\ task_pc[t] = "waiting"
        /\ get_task[t] # <<>>
        /\ \E i, j \in 1..Len(sent) :
              /\ i < j
              /\ sent[i].type = "transcript" /\ sent[i].task = t
              /\ sent[j].type = "transcript" /\ sent[j].task = t
              /\ sent[i].data # sent[j].data
              /\ \E k \in CallsOf("dispatch", t) : invoked[k].text = sent[i].data

\* C33: the forced flush on stop is made on the agent, and with the final
\* transcript, of the sender task started last on the connection, never
\* with those a replaced task returned.
C33_FlushUsesLastSession ==
    \A i \in 1..Len(invoked) :
        invoked[i].kind = "flush"
            => /\ invoked[i].agent = ntasks
               /\ invoked[i].text = stabilized_text[ntasks]

\* C34: every snapshot the listening loop removed from finished_text_queue
\* becomes the task's stabilized_text and is sent as a transcript event: when
\* the loop of a task that was not cancelled lets go of the snapshot in hand,
\* it has made it the current text and sent it, also when the shutdown signal
\* arrived in the same wait.
C34_NoDequeuedEventDiscarded ==
    [][\A t \in Tasks :
          (/\ task_pc[t] = "waiting"
           /\ ~cancel_req[t]
           /\ get_task[t] # <<>>
           /\ (get_task'[t] = <<>> \/ task_pc'[t] # "waiting"))
              => /\ stabilized_text'[t] = get_task[t][1]
                 /\ \E e \in NewlySent : e = Event("transcript", get_task[t][1], t)]_vars

\* C35: once the `starting` status of a new session has been sent, no event
\* of a replaced sender task follows it on the connection: every later event
\* comes from the session that status announced or from a later one.
C35_ReplacedTaskSilent ==
    \A i, j \in 1..Len(sent) :
        (i < j /\ sent[i].type = "status" /\ sent[i].data = <<"starting">>)
            => sent[j].task >= sent[i].task

\* C36: the sentence count a task has recorded is always 0 or a positive
\* multiple of three; a task that comes back from a dispatch attempt without
\* having been cancelled records the count of the dispatched text, the call
\* having raised or not; and an update whose count equals the recorded count
\* makes no call.
C36_RecordedCountAdvances ==
    [][\A t \in Tasks :
          /\ \/ sentence_count'[t] = 0
             \/ sentence_count'[t] > 0 /\ sentence_count'[t] % 3 = 0
          /\ (task_pc[t] = "dispatched" /\ ~cancel_req[t] /\ task_pc'[t] # "dispatched")
                => sentence_count'[t] = SentenceCount(stabilized_text[t])
          /\ (UpdateStep(t) /\ SentenceCount(get_task[t][1]) = sentence_count[t])
                => (task_pc'[t] # "dispatching" /\ invoked' = invoked)]_vars

\* a task dispatched a text of three sentences, the call raised, the count
\* was recorded, and the same count came again without a second call
C36_Witness ==
    \E t \in Tasks :
        /\ task_pc[t] = "waiting"
        /\ sentence_count[t] = 3
        /\ Cardinality(CallsOf("dispatch", t)) = 1
        /\ \A call \in threads : call.agent # t
        /\ \E i, j \in 1..Len(sent) :
              /\ i < j
              /\ sent[i] = sent[j]
              /\ sent[i].type = "transcript" /\ sent[i].task = t
              /\ SentenceCount(sent[i].data) = 3

\* --------------------------------------------------------------- Streamlit claims

\* C17: in the Streamlit pipeline a transcription service is stopped before
\* it is replaced: once a new TranscriptionService exists, no recorder of an
\* earlier one is running; and is_listening is true only while the recorder
\* of the current service has been started.
C17_ServiceStoppedBeforeReplaced ==
    /\ ss_transcription_service # 0
          => \A n \in Services :
                gui_recorder[n] = "running" => n = ss_transcription_service
    /\ ss_is_listening
          => /\ ss_transcription_service # 0
             /\ gui_recorder[ss_transcription_service] = "running"

\* the characters of text after position Len(last)
SuffixAfter(text, last) == [i \in 1..(Len(text) - Len(last)) |-> text[Len(last) + i]]

IsPrefix(p, text) == Len(p) <= Len(text) /\ \A i \in 1..Len(p) : p[i] = text[i]

\* c is s without its leading and trailing whitespace
IsTrimOf(c, s) ==
    IF c = <<>>
    THEN \A i \in 1..Len(s) : s[i] \in Whitespace
    ELSE /\ c[1] \notin Whitespace
         /\ c[Len(c)] \notin Whitespace
         /\ \E k \in 0..(Len(s) - Len(c)) :
               /\ \A i \in 1..Len(c) : s[k + i] = c[i]
               /\ \A i \in 1..Len(s) : (i <= k \/ i > k + Len(c)) => s[i] \in Whitespace

\* the number of words of s: positions where a run of non-whitespace starts
Words(s) ==
    Cardinality({ i \in 1..Len(s) :
                    s[i] \notin Whitespace /\ (i = 1 \/ s[i - 1] \in Whitespace) })

\* C28: the Streamlit agent is invoked only for a new suffix, since the last
\* dispatched snapshot, of more than two words; a snapshot that brings the
\* suffix above two words triggers exactly one invocation in the run that
\* takes it; and the dispatch moves the offset to the dispatched snapshot, so
\* no suffix of more than two words is ever left behind to trigger again.
C28_WordGate ==
    [][/\ Len(ss_conversation') > Len(ss_conversation)
            => /\ Words(SuffixAfter(ss_stabilized_text', ss_last_agent_transcript)) > 2
               /\ ss_conversation'[Len(ss_conversation) + 1][1] = "user"
               /\ IsTrimOf(ss_conversation'[Len(ss_conversation) + 1][2],
                           SuffixAfter(ss_stabilized_text', ss_last_agent_transcript))
               /\ Cardinality({ i \in (Len(ss_conversation) + 1)..Len(ss_conversation') :
                                  ss_conversation'[i][1] = "user" }) = 1
               /\ ss_last_agent_transcript' = ss_stabilized_text'
       /\ (/\ ss_is_listening
           /\ ss_stabilized_text' # ss_stabilized_text
           /\ Words(SuffixAfter(ss_stabilized_text', ss_last_agent_transcript)) > 2)
            => Len(ss_conversation') > Len(ss_conversation)
       /\ Words(SuffixAfter(ss_stabilized_text', ss_last_agent_transcript')) <= 2]_vars

\* a two-word snapshot did not trigger, and two later snapshots each
\* triggered once, the second for the words after the first dispatch
C28_Witness ==
    /\ ss_is_listening
    /\ gui_events = 3
    /\ ss_finished_text_queue = <<>>
    /\ ss_last_agent_transcript = ss_stabilized_text
    /\ { i \in 1..Len(ss_conversation) : ss_conversation[i][1] = "user" } # {}
    /\ \E i, j \in 1..Len(ss_conversation) :
          /\ i < j
          /\ ss_conversation[i] = <<"user", <<"a", " ", "b", " ", "c", " ", "d">> >>
          /\ ss_conversation[j] = <<"user", <<"e", " ", "f", " ", "g">> >>

\* C29: when a snapshot T extends the last dispatched snapshot P, the chunk
\* computed for T is the characters of T after position Len(P) without their
\* leading and trailing whitespace.
C29_ChunkIsTrimmedSuffix ==
    \A T \in GuiSnapshots \cup {ss_stabilized_text} :
        IsPrefix(ss_last_agent_transcript, T)
            => IsTrimOf(new_transcript_chunk(T, ss_last_agent_transcript),
                        SuffixAfter(T, ss_last_agent_transcript))

\* a snapshot was dispatched, and a queued snapshot extends it by text with
\* whitespace on both sides
C29_Witness ==
    /\ ss_last_agent_transcript = <<"a", " ", "b", " ", "c", " ", "d">>
    /\ ss_finished_text_queue # <<>>
    /\ IsPrefix(ss_last_agent_transcript, Head(ss_finished_text_queue))
    /\ new_transcript_chunk(Head(ss_finished_text_queue), ss_last_agent_transcript)
          = <<"e", " ", "f", " ", "g">>

\* C30: once listening has been stopped and the page has settled, no
\* non-empty suffix of the stabilized text is left that was never handed to
\* the agent: the stop dispatched whatever remained.
C30_StopFlushesRemainder ==
    (~ss_is_listening /\ ~gui_rerun)
        => new_transcript_chunk(ss_stabilized_text, ss_last_agent_transcript) = <<>>

\* C31: the agent created for a new language is never invoked with turns
\* recorded under another language. Every get_response call is made with an
\* empty history, or with a history that extends the conversation of the
\* call before it, made on an agent of the same language.
C31_NewLanguageStartsFromEmptyMemory ==
    \A j \in 1..Len(gui_calls) :
        \/ gui_calls[j].history = <<>>
        \/ /\ j > 1
           /\ gui_calls[j - 1].agent = gui_calls[j].agent
           /\ IsPrefix(Append(gui_calls[j - 1].history, <<"user", gui_calls[j - 1].input>>),
                       gui_calls[j].history)

\* the agent of one language was invoked, the language was changed, and the
\* agent of the other language was invoked
C31_Witness ==
    \E i, j \in 1..Len(gui_calls) :
        /\ i < j
        /\ gui_calls[i].agent = "de"
        /\ gui_calls[j].agent = "en"
        /\ ss_language = "en"
        /\ ss_conversation # <<>>

\* a criterion is supplied when the argument is neither None nor empty
Supplied(arg) == arg # <<>> /\ arg[1] # <<>>

\* record p satisfies every supplied criterion of the search args
Satisfies(p, args) ==
    /\ Supplied(args.risk_profile) => Lower(p.risk_profile) = Lower(args.risk_profile[1])
    /\ Supplied(args.currency) => Lower(p.currency) = Lower(args.currency[1])
    /\ args.min_coupon_pa # <<>>
          => (p.coupon_pa # <<>> /\ p.coupon_pa[1] >= args.min_coupon_pa[1])

\* C32: a search returns at most 10 records, each satisfying every supplied
\* criterion, and they are the first 10 records of the database, in database
\* order, that satisfy the criteria; a criterion left out does not filter.
C32_SearchReturnsFirstTenMatches ==
    tool_args # <<>>
        => LET matching == SelectSeq(_product_db, LAMBDA p : Satisfies(p, tool_args[1]))
           IN  /\ Len(tool_returned) <= 10
               /\ \A i \in 1..Len(tool_returned) : Satisfies(tool_returned[i], tool_args[1])
               /\ tool_returned = [i \in 1..(IF Len(matching) < 10 THEN Len(matching) ELSE 10)
                                    |-> matching[i]]

\* the snapshot dispatched by the call before call j of the same listening
\* session (a session's first call is made with an empty conversation)
PreviousSnapshot(j) ==
    IF gui_calls[j].history # <<>> /\ j > 1 THEN gui_calls[j - 1].transcript ELSE <<>>

\* C37 as stated: with an append-only transcript the dispatched chunks cover
\* the snapshot exactly once. Each call's offset is the snapshot of the call
\* before it, and its chunk is every character of the snapshot after that
\* offset: none is sent twice and none is skipped.
C37_ChunksCoverEveryCharacter ==
    \A j \in 1..Len(gui_calls) :
        IsPrefix(gui_calls[j].offset, gui_calls[j].transcript)
            => /\ gui_calls[j].offset = PreviousSnapshot(j)
               /\ gui_calls[j].input = SuffixAfter(gui_calls[j].transcript, gui_calls[j].offset)

\* C37 amended: each call's offset is the snapshot of the call before it, and
\* its chunk is the characters of the snapshot after that offset without the
\* whitespace at their two ends: no character is sent twice, and only
\* whitespace at the ends of a slice is left out.
C37_ChunksCoverUpToWhitespace ==
    \A j \in 1..Len(gui_calls) :
        IsPrefix(gui_calls[j].offset, gui_calls[j].transcript)
            => /\ gui_calls[j].offset = PreviousSnapshot(j)
               /\ IsTrimOf(gui_calls[j].input,
                           SuffixAfter(gui_calls[j].transcript, gui_calls[j].offset))

\* three append-only snapshots, two dispatches in one session; the second
\* chunk is the text after the first dispatch, without the space before it
\* and the space after it
C37_Witness ==
    /\ gui_events = 3
    /\ Len(gui_calls) = 2
    /\ gui_calls[2].history # <<>>
    /\ gui_calls[1].transcript = <<"a", " ", "b", " ", "c", " ", "d">>
    /\ gui_calls[2].offset = gui_calls[1].transcript
    /\ gui_calls[2].input = <<"e", " ", "f", " ", "g">>
    /\ Len(gui_calls[2].transcript) = Len(gui_calls[2].offset) + 7

====
